---- MODULE Spec2Model ----
(***************************************************************************)
(* Model of jlubawy/go-ctext: the comment/text Scanner (ctext.go) and the  *)
(* macro invocation extractor built on it (cmacro/cmacro.go).              *)
(*                                                                         *)
(* A byte is a one-character string; byte strings are sequences of bytes.  *)
(***************************************************************************)
EXTENDS Integers, Sequences, FiniteSets, TLC

VARIABLES
  input,            \* the bytes behind the io.Reader handed to NewScanner
  br,               \* number of input bytes the bufio.Reader has handed out
  Position,         \* Scanner.Position: [Line, Column], the current position
  buf,              \* Scanner.buf
  err,              \* Scanner.err
  startPosition,    \* Scanner.startPosition: [Line, Column]
  currentTT,        \* Scanner.currentTT
  inStringLiteral,  \* Scanner.inStringLiteral
  mlCommentCount,   \* Scanner.mlCommentCount
  inSLComment,      \* Scanner.inSLComment
  called,           \* history: Next has been called at least once
  errorCalls,       \* history: calls of Next that returned ErrorToken (saturating)
  ret,              \* history: what the most recent call of Next returned
  tokens,           \* history: Token() after every Comment/Text result, in order
  names,            \* ScanInvocations: the target macro names
  invs,             \* ScanInvocations: the Invocations handed to scanFunc, in order
  merr,             \* ScanInvocations, StripComments: the error it returns
  running,          \* ScanInvocations, StripComments: it has not returned yet
  w,                \* StripComments: the bytes written to its io.Writer
  pass,             \* history: 1 on the given input, 2 on the output of pass 1, ...
  hung              \* ScanInvocations: it is in a loop of scanInvocationsTextToken
                    \* that comes back to the same string for ever

vars == <<input, br, Position, buf, err, startPosition, currentTT,
          inStringLiteral, mlCommentCount, inSLComment, called, errorCalls,
          ret, tokens, names, invs, merr, running, w, pass, hung>>

---------------------------------------------------------------------------
(* Bounds of the model *)

\* longest input drawn byte by byte from Alphabet
MaxLen == 4
\* longest input drawn piece by piece from Pieces
MaxPieces == 5
\* the history counter errorCalls stops counting here
MaxErrorCalls == 2
\* longest extractor input drawn piece by piece from MacroPieces
MaxMacroPieces == 4
\* longest argument list drawn piece by piece from ArgPieces
MaxArgPieces == 4
\* longest extractor input drawn piece by piece from StmtPieces
MaxStmts == 3
\* longest argument list drawn byte by byte from ParseBytes
MaxParseLen == 4
\* longest StripComments input drawn piece by piece from StripPieces
MaxStripPieces == 4
\* how many times in a row the strip command is run, each on the output
\* of the run before
MaxPasses == 2
\* longest extractor input drawn piece by piece from NamePieces
MaxNamePieces == 3

---------------------------------------------------------------------------
(* Token types, ctext.go:23-31 (iota) *)

ErrorToken == 0
CommentToken == 1
TextToken == 2

(* Errors *)
NoError == "nil"
EOF == "EOF"
ErrUnexpectedEnd == "unexpected end of multi-line comment"

---------------------------------------------------------------------------
(* Inputs *)

Alphabet == {"/", "*", "\"", "\\", "\n", "\r", "a"}

Pieces == {<<"/", "*">>, <<"*", "/">>, <<"/", "/">>, <<"a">>, <<"\n">>}

RECURSIVE Concat(_)
Concat(ss) == IF ss = <<>> THEN <<>> ELSE Head(ss) \o Concat(Tail(ss))

SeqsUpTo(S, n) == UNION {[1..k -> S] : k \in 0..n}

\* "int x; // c\ny;"
ExLineComment ==
  <<"i","n","t"," ","x",";"," ","/","/"," ","c","\n","y",";">>
\* "/* a /* b */ c */"
ExNested ==
  <<"/","*"," ","a"," ","/","*"," ","b"," ","*","/"," ","c"," ","*","/">>
\* "x = \"a // b\";"
ExString ==
  <<"x"," ","="," ","\"","a"," ","/","/"," ","b","\"",";">>
\* "#if 0\n/* A /* c */ */\n#endif\n"  (example_complex_test.go:41-43, shortened)
ExComplexTail ==
  <<"#","i","f"," ","0","\n","/","*"," ","A"," ","/","*"," ","c"," ","*","/",
    " ","*","/","\n","#","e","n","d","i","f","\n">>
\* "/* never closed"
ExUnclosed ==
  <<"/","*"," ","n","e","v","e","r"," ","c","l","o","s","e","d">>
\* "  P( \"s // t\\n\"\n  ); // p \"s // t \\n\"\nr;"   (example_complex_test.go:35-38)
ExPuts ==
  <<" "," ","P","("," ","\"","s"," ","/","/"," ","t","\\","n","\"","\n",
    " "," ",")",";"," ","/","/"," ","p"," ","\"","s"," ","/","/"," ","t"," ",
    "\\","n","\"","\n","r",";">>

Examples == {ExLineComment, ExNested, ExString, ExComplexTail, ExUnclosed, ExPuts}

Inputs ==
  SeqsUpTo(Alphabet, MaxLen)
    \cup {Concat(ps) : ps \in SeqsUpTo(Pieces, MaxPieces)}
    \cup Examples

---------------------------------------------------------------------------
(* internal helpers *)

\* internal.LastChar: the last byte of the buffer, ok = FALSE when it is empty
LastChar(b) ==
  IF Len(b) = 0 THEN [c |-> "", ok |-> FALSE] ELSE [c |-> b[Len(b)], ok |-> TRUE]

\* internal.AddChar with maxBuf = 0 (NewScanner's default: unlimited)
AddChar(b, c) == Append(b, c)

---------------------------------------------------------------------------
(* Scanner.Next, one iteration of its loop at a time.  z is the scanner    *)
(* as a record; a case gives the scanner after it and how the iteration    *)
(* goes on: "return" (return currentTT before reading the byte), "done"    *)
(* (read the byte, then leave the loop) or "cont" (read it and loop).      *)

Out(z, how) == [z |-> z, how |-> how]

Backdate(z) ==
  [z EXCEPT !.startPosition =
     [Line |-> z.Position.Line, Column |-> z.Position.Column - 1]]

\* SlashCase, were the first */ to close the comment whatever the depth
SlashCase_FirstCloses(z) ==
  IF ~z.inSLComment /\ z.mlCommentCount = 0
  THEN IF ~z.inStringLiteral
       THEN IF LastChar(z.buf).ok /\ LastChar(z.buf).c = "/"
            THEN Out([Backdate(z) EXCEPT !.inSLComment = TRUE], "cont")
            ELSE IF Len(z.buf) > 0
                 THEN Out([z EXCEPT !.currentTT = TextToken], "return")
                 ELSE Out(z, "cont")
       ELSE Out(z, "cont")
  ELSE IF z.mlCommentCount > 0
       THEN IF LastChar(z.buf).ok /\ LastChar(z.buf).c = "*"
            THEN Out([z EXCEPT !.mlCommentCount = 0,
                               !.currentTT = CommentToken], "done")
            ELSE Out(z, "cont")
       ELSE Out(z, "cont")

\* case '/':  ctext.go:166-198
SlashCase(z) ==
  IF ~z.inSLComment /\ z.mlCommentCount = 0
  THEN IF ~z.inStringLiteral
       THEN IF LastChar(z.buf).ok /\ LastChar(z.buf).c = "/"
            THEN Out([Backdate(z) EXCEPT !.inSLComment = TRUE], "cont")
            ELSE IF Len(z.buf) > 0
                 THEN Out([z EXCEPT !.currentTT = TextToken], "return")
                 ELSE Out(z, "cont")
       ELSE Out(z, "cont")
  ELSE IF z.mlCommentCount > 0
       THEN IF LastChar(z.buf).ok /\ LastChar(z.buf).c = "*"
            THEN IF z.mlCommentCount - 1 = 0
                 THEN Out([z EXCEPT !.mlCommentCount = 0,
                                    !.currentTT = CommentToken], "done")
                 ELSE Out([z EXCEPT !.mlCommentCount = @ - 1], "cont")
            ELSE Out(z, "cont")
       ELSE Out(z, "cont")

\* StarCase, were an inner /* not to be counted
StarCase_NoNest(z) ==
  IF LastChar(z.buf).ok /\ LastChar(z.buf).c = "/" /\ z.mlCommentCount = 0
  THEN Out([Backdate(z) EXCEPT !.mlCommentCount = 1], "cont")
  ELSE Out(z, "cont")

\* case '*':  ctext.go:200-208
StarCase(z) ==
  IF LastChar(z.buf).ok /\ LastChar(z.buf).c = "/"
  THEN IF z.mlCommentCount + 1 = 1
       THEN Out([Backdate(z) EXCEPT !.mlCommentCount = 1], "cont")
       ELSE Out([z EXCEPT !.mlCommentCount = @ + 1], "cont")
  ELSE Out(z, "cont")

\* case '\n':  ctext.go:221-232
NewlineCase(z) ==
  LET z1 == [z EXCEPT !.Position = [Line |-> z.Position.Line + 1, Column |-> 0]]
  IN IF z1.mlCommentCount > 0
     THEN Out(z1, "cont")
     ELSE IF z1.inSLComment
          THEN Out([z1 EXCEPT !.inSLComment = FALSE,
                              !.currentTT = CommentToken], "done")
          ELSE Out(z1, "cont")

\* case '"':  ctext.go:234-240
QuoteCase(z) ==
  IF ~z.inSLComment /\ z.mlCommentCount = 0
  THEN IF LastChar(z.buf).ok /\ LastChar(z.buf).c # "\\"
       THEN Out([z EXCEPT !.inStringLiteral = ~@], "cont")
       ELSE Out(z, "cont")
  ELSE Out(z, "cont")

\* the switch on the peeked byte, ctext.go:164-241 ('\r' is handled by the loop)
Switch(z, b) ==
  CASE b = "/"  -> SlashCase(z)
    [] b = "*"  -> StarCase(z)
    [] b = "\n" -> NewlineCase(z)
    [] b = "\"" -> QuoteCase(z)
    [] OTHER    -> Out(z, "cont")

\* AtEOF, were an unterminated block comment to be returned as a Comment token
AtEOF_ReturnsComment(z) ==
  IF Len(z.buf) > 0
  THEN IF z.mlCommentCount > 0
       THEN [z EXCEPT !.err = EOF, !.currentTT = CommentToken, !.ret = CommentToken]
       ELSE [z EXCEPT !.err = EOF, !.currentTT = TextToken, !.ret = TextToken]
  ELSE [z EXCEPT !.err = EOF, !.ret = ErrorToken]

\* AtEOF, were the buffered bytes not to be flushed
AtEOF_DropsBuffer(z) ==
  IF Len(z.buf) > 0 /\ z.mlCommentCount > 0
  THEN [z EXCEPT !.err = ErrUnexpectedEnd, !.currentTT = ErrorToken,
                 !.ret = ErrorToken]
  ELSE [z EXCEPT !.err = EOF, !.ret = ErrorToken]

\* AtEOF, were the end of input to be reported as a Text token even with
\* nothing buffered
AtEOF_FlushesEmpty(z) ==
  IF z.mlCommentCount > 0
  THEN [z EXCEPT !.err = ErrUnexpectedEnd, !.currentTT = ErrorToken,
                 !.ret = ErrorToken]
  ELSE [z EXCEPT !.err = EOF, !.currentTT = TextToken, !.ret = TextToken]

\* Peek(1) failed with io.EOF:  ctext.go:134-153
AtEOF(z) ==
  IF Len(z.buf) > 0
  THEN IF z.mlCommentCount > 0
       THEN [z EXCEPT !.err = ErrUnexpectedEnd, !.currentTT = ErrorToken,
                      !.ret = ErrorToken]
       ELSE [z EXCEPT !.err = EOF, !.currentTT = TextToken, !.ret = TextToken]
  ELSE [z EXCEPT !.err = EOF, !.ret = ErrorToken]

\* ctext.go:155-162: the first byte peeked in a call fixes the start position
SetStart(z) ==
  IF z.startPosition.Line = 0
  THEN [z EXCEPT !.startPosition =
          [Line |-> z.Position.Line,
           Column |-> IF z.Position.Column = 0 THEN 1 ELSE z.Position.Column]]
  ELSE z

\* DiscardCR, were the \r to be buffered like any other byte
DiscardCR_Buffers(z) ==
  [z EXCEPT !.br = @ + 1, !.Position.Column = @ + 1, !.buf = Append(@, "\r")]

\* case '\r':  ctext.go:210-219 (Discard(1), Column += 1, continue)
DiscardCR(z) ==
  [z EXCEPT !.br = @ + 1, !.Position.Column = @ + 1]

\* ReadByte, Column += 1, AddChar:  ctext.go:243-254
\* (first is the history of where the token's first buffered byte lies)
ReadByte(z, b) ==
  [z EXCEPT !.br = @ + 1,
            !.Position.Column = @ + 1,
            !.first = IF Len(z.buf) = 0 THEN z.br + 1 ELSE @,
            !.buf = AddChar(@, b)]

\* the for loop of Next, ctext.go:131-257
RECURSIVE Loop(_, _)
Loop(in, z) ==
  IF z.br >= Len(in)
  THEN AtEOF(z)
  ELSE LET z1 == SetStart(z)
           b  == in[z.br + 1]
       IN IF b = "\r"
          THEN Loop(in, DiscardCR(z1))
          ELSE LET r == Switch(z1, b)
               IN IF r.how = "return"
                  THEN [r.z EXCEPT !.ret = r.z.currentTT]
                  ELSE LET z2 == ReadByte(r.z, b)
                       IN IF r.how = "done"
                          THEN [z2 EXCEPT !.ret = z2.currentTT]
                          ELSE Loop(in, z2)

\* ctext.go:118-129: what Next resets before its loop
Reset(z) ==
  [z EXCEPT !.buf = <<>>,
            !.currentTT = ErrorToken,
            !.inStringLiteral = FALSE,
            !.mlCommentCount = 0,
            !.inSLComment = FALSE,
            !.startPosition = [Line |-> 0, Column |-> 0],
            !.first = 0]

\* NextOf, without the early return on an existing error
NextOf_NoEarlyReturn(in, z) == Loop(in, Reset(z))

\* Scanner.Next as a function of the scanner, ctext.go:112-258
NextOf(in, z) ==
  IF z.err # NoError
  THEN [z EXCEPT !.ret = ErrorToken]
  ELSE Loop(in, Reset(z))

\* Scanner.Token, ctext.go:267-273 (off: history, the input offset of Data[1])
Token(z) ==
  [Type |-> z.currentTT, Line |-> z.startPosition.Line,
   Column |-> z.startPosition.Column, Data |-> z.buf, off |-> z.first]

\* the scanner of the state, as a record
Z ==
  [br |-> br, Position |-> Position, buf |-> buf, err |-> err,
   startPosition |-> startPosition, currentTT |-> currentTT,
   inStringLiteral |-> inStringLiteral, mlCommentCount |-> mlCommentCount,
   inSLComment |-> inSLComment, ret |-> ret, first |-> 0]

---------------------------------------------------------------------------
(* The state machine of one Scanner *)

\* NewScanner, ctext.go:90-100
NewScanner ==
  /\ br = 0
  /\ Position = [Line |-> 1, Column |-> 1]
  /\ buf = <<>>
  /\ err = NoError
  /\ startPosition = [Line |-> 0, Column |-> 0]
  /\ currentTT = ErrorToken
  /\ inStringLiteral = FALSE
  /\ mlCommentCount = 0
  /\ inSLComment = FALSE

\* one call of Scanner.Next on the scanner of the state
Scan(z) ==
  /\ br' = z.br
  /\ Position' = z.Position
  /\ buf' = z.buf
  /\ err' = z.err
  /\ startPosition' = z.startPosition
  /\ currentTT' = z.currentTT
  /\ inStringLiteral' = z.inStringLiteral
  /\ mlCommentCount' = z.mlCommentCount
  /\ inSLComment' = z.inSLComment
  /\ called' = TRUE
  /\ errorCalls' = IF z.ret = ErrorToken /\ errorCalls < MaxErrorCalls
                   THEN errorCalls + 1 ELSE errorCalls
  /\ ret' = z.ret
  /\ tokens' = IF z.ret = ErrorToken THEN tokens ELSE Append(tokens, Token(z))
  /\ UNCHANGED input

Init ==
  /\ input \in Inputs
  /\ NewScanner
  /\ called = FALSE
  /\ errorCalls = 0
  /\ ret = ErrorToken
  /\ tokens = <<>>
  /\ names = <<>>
  /\ invs = <<>>
  /\ merr = NoError
  /\ running = FALSE
  /\ w = <<>>
  /\ pass = 1
  /\ hung = FALSE

\* a caller of the Scanner calls Next
Next ==
  /\ Scan(NextOf(input, Z))
  /\ UNCHANGED <<names, invs, merr, running, w, pass, hung>>

Spec == Init /\ [][Next]_vars

\* the data of the tokens returned so far, concatenated in order
RECURSIVE ConcatData(_)
ConcatData(ts) == IF ts = <<>> THEN <<>> ELSE Head(ts).Data \o ConcatData(Tail(ts))

---------------------------------------------------------------------------
(* cmacro: the invocation extractor.  Go indexes strings from 0: At, Slice  *)
(* and From read a byte string the way s[i], s[a:b] and s[a:] do.           *)

ErrMissingParen == "macro function missing opening parentheses"

At(s, i) == s[i + 1]
Slice(s, a, b) == SubSeq(s, a + 1, b)
From(s, a) == SubSeq(s, a + 1, Len(s))

\* the bytes the regexp class \w holds
WordChars ==
  {"a","b","c","d","e","f","g","h","i","j","k","l","m","n","o","p","q","r","s",
   "t","u","v","w","x","y","z","A","B","C","D","E","F","G","H","I","J","K","L",
   "M","N","O","P","Q","R","S","T","U","V","W","X","Y","Z","0","1","2","3","4",
   "5","6","7","8","9","_"}

IsWordAt(s, i) == i >= 0 /\ i < Len(s) /\ At(s, i) \in WordChars

\* the regexp assertion \b at offset p of s
WordBoundary(s, p) == IsWordAt(s, p - 1) # IsWordAt(s, p)

\* the alternative (\bname) of compileNamesRegexp matches at offset p
MatchAt(s, p, name) ==
  /\ WordBoundary(s, p)
  /\ p + Len(name) <= Len(s)
  /\ Slice(s, p, p + Len(name)) = name

Least(S) == CHOOSE x \in S : \A y \in S : x <= y

\* re.FindStringIndex(s) for the regexp of compileNamesRegexp(names...):
\* the leftmost match, and at that offset the first alternative that matches;
\* without names the regexp is empty and matches the empty string at 0
FindStringIndex(s, ns) ==
  IF ns = <<>> THEN [ok |-> TRUE, ni |-> 0, name |-> <<>>]
  ELSE LET ps == {q \in 0..Len(s) : \E k \in DOMAIN ns : MatchAt(s, q, ns[k])}
       IN IF ps = {} THEN [ok |-> FALSE, ni |-> 0, name |-> <<>>]
          ELSE LET q == Least(ps)
                   k == Least({j \in DOMAIN ns : MatchAt(s, q, ns[j])})
               IN [ok |-> TRUE, ni |-> q, name |-> ns[k]]

Define == <<"d", "e", "f", "i", "n", "e">>

\* isMacroDefinition, cmacro.go:275-300
isMacroDefinition(s, ni) ==
  IF ni >= 8
  THEN LET back == {k \in 0..(ni - 1) : At(s, k) # " "}
           i == IF back = {} THEN -1 ELSE CHOOSE k \in back : \A m \in back : m <= k
       IN IF i >= 6 /\ Slice(s, i - 5, i + 1) = Define
          THEN LET before == {j \in 0..(i - 6) : At(s, j) # " "}
               IN IF before = {} THEN FALSE
                  ELSE At(s, CHOOSE j \in before : \A m \in before : m <= j) = "#"
          ELSE FALSE
  ELSE FALSE

\* A byte string is a sequence with one element for every byte: a byte below
\* 0x80 is the one-character string of that ASCII character, a byte from
\* 0x80 on is the string of its two hexadecimal digits ("C2" is the byte
\* 0xC2), which no ASCII byte is.

\* the vertical tab, byte 0x0B (TLA+ has no escape for it: the string holds
\* the byte itself)
VT == ""

\* asciiSpace of package strings, the ASCII white space strings.TrimSpace
\* removes byte by byte: '\t', '\n', '\v', '\f', '\r', ' '
Space == {" ", "\t", "\n", VT, "\f", "\r"}

\* The white space of unicode.IsSpace beyond ASCII, each rune as the bytes of
\* its UTF-8 encoding: U+0085, U+00A0, U+1680, U+2000 to U+200A, U+2028,
\* U+2029, U+202F, U+205F, U+3000.  strings.TrimSpace decodes a rune wherever
\* it meets a byte from 0x80 on; a byte that starts no valid encoding (a lone
\* 0x85 or 0xA0) decodes to U+FFFD, which is not white space.
UnicodeSpace ==
  {<<"C2", "85">>, <<"C2", "A0">>, <<"E1", "9A", "80">>,
   <<"E2", "80", "80">>, <<"E2", "80", "81">>, <<"E2", "80", "82">>,
   <<"E2", "80", "83">>, <<"E2", "80", "84">>, <<"E2", "80", "85">>,
   <<"E2", "80", "86">>, <<"E2", "80", "87">>, <<"E2", "80", "88">>,
   <<"E2", "80", "89">>, <<"E2", "80", "8A">>, <<"E2", "80", "A8">>,
   <<"E2", "80", "A9">>, <<"E2", "80", "AF">>, <<"E2", "81", "9F">>,
   <<"E3", "80", "80">>}

\* the rune decoded at the start of s is white space: its width, else 0
LeadingSpace(s) ==
  IF s = <<>> THEN 0
  ELSE IF Head(s) \in Space THEN 1
  ELSE IF \E n \in 2..3 : n <= Len(s) /\ SubSeq(s, 1, n) \in UnicodeSpace
       THEN CHOOSE n \in 2..3 : n <= Len(s) /\ SubSeq(s, 1, n) \in UnicodeSpace
       ELSE 0

\* the rune decoded at the end of s is white space: its width, else 0
TrailingSpace(s) ==
  LET last(n) == SubSeq(s, Len(s) - n + 1, Len(s))
  IN IF s = <<>> THEN 0
     ELSE IF s[Len(s)] \in Space THEN 1
     ELSE IF \E n \in 2..3 : n <= Len(s) /\ last(n) \in UnicodeSpace
          THEN CHOOSE n \in 2..3 : n <= Len(s) /\ last(n) \in UnicodeSpace
          ELSE 0

RECURSIVE TrimLeft(_)
TrimLeft(s) ==
  LET n == LeadingSpace(s)
  IN IF n > 0 THEN TrimLeft(SubSeq(s, n + 1, Len(s))) ELSE s

RECURSIVE TrimRight(_)
TrimRight(s) ==
  LET n == TrailingSpace(s)
  IN IF n > 0 THEN TrimRight(SubSeq(s, 1, Len(s) - n)) ELSE s

\* strings.TrimSpace: the leading white space goes first, then the trailing
\* white space of what is left
TrimSpace(s) == TrimRight(TrimLeft(s))

\* parseInvocationArg without its strings.TrimSpace
parseInvocationArg_NoTrim(b) == [arg |-> b, ok |-> Len(b) > 0]

\* parseInvocationArg, cmacro.go:304-311 (the buffer is reset when ok)
parseInvocationArg(b) ==
  LET arg == TrimSpace(b) IN [arg |-> arg, ok |-> Len(arg) > 0]

\* arg, ok := parseInvocationArg(buf); if ok { inv.Args = append(...) }
FlushArg(st) ==
  LET r == parseInvocationArg(st.buf)
  IN IF r.ok
     THEN [st EXCEPT !.args = Append(@, TrimSpace(r.arg)), !.buf = <<>>]
     ELSE st

WriteByte(st, b) == [st EXCEPT !.buf = Append(@, b)]

\* case ' ' and case ',':  cmacro.go:133-161
SeparatorCase(st, b) ==
  IF st.inStringLiteral \/ st.parenCount > 0 THEN WriteByte(st, b)
  ELSE IF st.parenCount = 0 THEN FlushArg(st)
  ELSE st

\* case '"':  cmacro.go:163-195
QuoteArgCase(st, b) ==
  IF st.inStringLiteral
  THEN IF st.buf # <<>> /\ st.buf[Len(st.buf)] = "\\"
       THEN WriteByte(st, b)
       ELSE LET st1 == WriteByte([st EXCEPT !.inStringLiteral = FALSE], b)
            IN IF st1.parenCount = 0 THEN FlushArg(st1) ELSE st1
  ELSE WriteByte([st EXCEPT !.inStringLiteral = TRUE], b)

\* case '(':  cmacro.go:197-207
OpenParenCase(st, b) ==
  LET st1 == WriteByte(st, b)
  IN IF ~st1.inStringLiteral THEN [st1 EXCEPT !.parenCount = @ + 1] ELSE st1

\* a parser that also buffers the ) read at depth 0 before it flushes
CloseParenCase_Buffers(st, b) ==
  IF st.inStringLiteral THEN WriteByte(st, b)
  ELSE LET st1 == IF st.parenCount > 0
                  THEN [WriteByte(st, b) EXCEPT !.parenCount = @ - 1]
                  ELSE WriteByte(st, b)
       IN IF st1.parenCount = 0 THEN FlushArg(st1) ELSE st1

\* case ')':  cmacro.go:209-234
CloseParenCase(st, b) ==
  IF st.inStringLiteral THEN WriteByte(st, b)
  ELSE LET st1 == IF st.parenCount > 0
                  THEN [WriteByte(st, b) EXCEPT !.parenCount = @ - 1]
                  ELSE st
       IN IF st1.parenCount = 0 THEN FlushArg(st1) ELSE st1

\* case ';':  cmacro.go:236-249 (inv.End = lineCurr; scanFunc(inv); done = true)
SemicolonCase(st, b) ==
  IF st.inStringLiteral THEN WriteByte(st, b)
  ELSE [st EXCEPT !.done = TRUE]

\* case '\n':  cmacro.go:254-255
NewlineArgCase(st, b) == [st EXCEPT !.lineCurr = @ + 1]

\* the switch of the argument loop, cmacro.go:132-262
ArgStep(st, b) ==
  CASE b = " " \/ b = "," -> SeparatorCase(st, b)
    [] b = "\""           -> QuoteArgCase(st, b)
    [] b = "("            -> OpenParenCase(st, b)
    [] b = ")"            -> CloseParenCase(st, b)
    [] b = ";"            -> SemicolonCase(st, b)
    [] b = "\r"           -> st
    [] b = "\n"           -> NewlineArgCase(st, b)
    [] OTHER              -> WriteByte(st, b)

\* for ; (i < len(s)) && !done; i++ { ... }   cmacro.go:128-263
RECURSIVE ArgLoop(_, _, _)
ArgLoop(s, i, st) ==
  IF i < Len(s) /\ ~st.done
  THEN ArgLoop(s, i + 1, ArgStep(st, At(s, i)))
  ELSE [st EXCEPT !.i = i]

\* strings.Index(s, "("), -1 when there is none
IndexParen(s) ==
  LET ps == {q \in 0..(Len(s) - 1) : At(s, q) = "("}
  IN IF ps = {} THEN -1 ELSE Least(ps)

NewlinesBefore(s, ni) == Cardinality({k \in 0..(ni - 1) : At(s, k) = "\n"})

\* the outer loop of scanInvocationsTextToken, cmacro.go:78-272.
\* out: the invocations handed to scanFunc so far and the error returned;
\* cut: how many bytes of the token s no longer holds (history: at is where
\* in the CR-stripped input the matched name lies, semi where the ; that
\* ended the argument loop lies); loops: the loop comes back to the same s
\* with a callback made, so it makes callbacks for ever.
RECURSIVE ScanLoop(_, _, _, _, _)
ScanLoop(s, ns, lineCurr, cut, out) ==
  LET loc == FindStringIndex(s, ns)
  IN IF ~loc.ok THEN out
     ELSE
       LET ni    == loc.ni
           name  == loc.name
           line1 == lineCurr + NewlinesBefore(s, ni)
           isDef == isMacroDefinition(s, ni)
           s1    == From(s, ni + Len(name))
           cut1  == cut + ni + Len(name)
       IN IF isDef THEN ScanLoop(s1, ns, line1, cut1, out)
          ELSE
            LET opi == IndexParen(s1)
            IN IF opi = -1 THEN [out EXCEPT !.err = ErrMissingParen]
               ELSE
                 LET st == ArgLoop(s1, opi + 1,
                              [done |-> FALSE, inStringLiteral |-> FALSE,
                               parenCount |-> 0, buf |-> <<>>, args |-> <<>>,
                               lineCurr |-> line1, i |-> 0])
                     inv == [Name |-> name, Start |-> line1, End |-> st.lineCurr,
                             Args |-> st.args, at |-> cut + ni + 1,
                             semi |-> cut1 + st.i]
                     out1 == IF st.done
                             THEN [out EXCEPT !.invs = Append(@, inv)]
                             ELSE out
                 IN IF st.i >= Len(s1) THEN out1
                    ELSE IF s1 = s THEN [out1 EXCEPT !.loops = TRUE]
                    ELSE ScanLoop(s1, ns, st.lineCurr, cut1, out1)

\* scanInvocationsTextToken(s, pos, scanFunc, names...), cmacro.go:67-273
scanInvocationsTextToken(s, line, ns, from, sofar) ==
  ScanLoop(s, ns, line, from - 1,
           [invs |-> sofar, err |-> NoError, loops |-> FALSE])

---------------------------------------------------------------------------
(* The state machine of one call of ScanInvocations *)

F == <<"F">>
D == <<"d">>

NameLists == {<<F>>, <<D>>, <<F, D>>}

MacroPieces ==
  {<<"#","d","e","f","i","n","e">>, <<" ">>, F, D, <<"(","a",")",";">>, <<"\n">>}

\* "#define F(a,b) (a+b)"
ExDefine ==
  <<"#","d","e","f","i","n","e"," ","F","(","a",",","b",")"," ","(","a","+","b",")">>
\* "#define F(a,b) (a+b)\nF(1,2);"
ExDefineThenCall == ExDefine \o <<"\n","F","(","1",",","2",")",";">>
\* "  #  define   F( a ) (a);\n /* c */ F( 1 );"   (after part_004:27)
ExSpacedDefine ==
  <<" "," ","#"," "," ","d","e","f","i","n","e"," "," "," ","F","("," ","a"," ",")",
    " ","(","a",")",";","\n"," ","/","*"," ","c"," ","*","/"," ","F","("," ","1"," ",")",";">>

\* "#define d(a);\n"
ExDefineD ==
  <<"#","d","e","f","i","n","e"," ","d","(","a",")",";","\n">>

MacroExamples == {ExDefine, ExDefineThenCall, ExSpacedDefine, ExDefineD}

MacroInputs ==
  {Concat(ps) : ps \in SeqsUpTo(MacroPieces, MaxMacroPieces)} \cup MacroExamples

MacroInit ==
  /\ input \in MacroInputs
  /\ names \in NameLists
  /\ NewScanner
  /\ called = FALSE
  /\ errorCalls = 0
  /\ ret = ErrorToken
  /\ tokens = <<>>
  /\ invs = <<>>
  /\ merr = NoError
  /\ running = TRUE
  /\ w = <<>>
  /\ pass = 1
  /\ hung = FALSE

\* one iteration of the loop of ScanInvocations, cmacro.go:39-55: a call of
\* Next, then the return on ErrorToken or the scan of the Text token.  The
\* position handed on, s.Position of the scanner cmacro is written against,
\* is the position of the token: startPosition here.  When the loop of
\* scanInvocationsTextToken comes back to the string it started from, the
\* call makes the same callbacks for ever and never returns: hung, with the
\* callbacks of the first lap in invs.
ScanInvocations ==
  /\ running /\ ~hung
  /\ LET z == NextOf(input, Z)
         r == scanInvocationsTextToken(z.buf, z.startPosition.Line, names,
                                       Len(ConcatData(tokens)) + 1, invs)
     IN /\ Scan(z)
        /\ IF z.ret = ErrorToken
           THEN /\ merr' = IF z.err = EOF THEN NoError ELSE z.err
                /\ running' = FALSE
                /\ invs' = invs
                /\ hung' = hung
           ELSE IF z.ret = TextToken
           THEN /\ invs' = r.invs
                /\ merr' = r.err
                /\ running' = (r.err = NoError)
                /\ hung' = r.loops
           ELSE UNCHANGED <<invs, merr, running, hung>>
  /\ UNCHANGED <<names, w, pass>>

MacroSpec == MacroInit /\ [][ScanInvocations]_vars

---------------------------------------------------------------------------
(* ScanInvocations on one call of F whose argument list is made of nested   *)
(* calls (one of them over two lines), groups nested two deep, string       *)
(* literals, operands and separators                                        *)

\* what stands between "F(" and ");"
ArgPieces ==
  {<<"G","(","1",",","2",")">>, <<"(","(","a",")"," ","b",")">>,
   <<"\"","a",","," ","(","b","\"">>, <<"H","(","\"",")","\"",","," ","x",")">>,
   <<"G","(","a","\n","b",")">>,
   <<",">>, <<" ">>, <<"3">>, <<"+">>}

CallOf(body) == <<"F", "(">> \o body \o <<")", ";">>

\* "F( G(1,2), 3 );"
ExNestedCall ==
  CallOf(<<" ","G","(","1",",","2",")",","," ","3"," ">>)
\* "F( "%d", 1, I( 123, "T" ) );"   (after part_004:200-215)
ExInnerCall ==
  CallOf(<<" ","\"","%","d","\"",","," ","1",","," ","I","("," ","1","2","3",
           ","," ","\"","T","\""," ",")"," ">>)

ArgBodies == {Concat(ps) : ps \in SeqsUpTo(ArgPieces, MaxArgPieces)}

ArgInputs == {CallOf(b) : b \in ArgBodies} \cup {ExNestedCall, ExInnerCall}

ArgInit ==
  /\ input \in ArgInputs
  /\ names = <<F>>
  /\ NewScanner
  /\ called = FALSE
  /\ errorCalls = 0
  /\ ret = ErrorToken
  /\ tokens = <<>>
  /\ invs = <<>>
  /\ merr = NoError
  /\ running = TRUE
  /\ w = <<>>
  /\ pass = 1
  /\ hung = FALSE

ArgSpec == ArgInit /\ [][ScanInvocations]_vars

---------------------------------------------------------------------------
(* ScanInvocations on a few statements, comments and definitions in a row   *)

FA == <<"F", "A">>

\* the target names: F alone, and F with a name it is a prefix of
CallNames == {<<F>>, <<F, FA>>, <<FA, F>>}

\* a call of F: F(1);
CallF == <<"F","(","1",")",";">>
\* a call of F over two lines: F(\n1);
CallMultiLine == <<"F","(","\n","1",")",";">>
\* a call of F with the ( on the next line: F\n(1);
CallNameAlone == <<"F","\n","(","1",")",";">>
\* F without parentheses: F;
NoParen == <<"F",";">>
\* a call of F without its ;: F(1)
NoSemicolon == <<"F","(","1",")">>
\* a call of a name that is no target: G(2);
CallG == <<"G","(","2",")",";">>
\* a line comment holding a call of F: // F(1);
LineCommentF == <<"/","/"," ","F","(","1",")",";">>
\* a block comment holding a call of F: /* F(1); */
BlockCommentF == <<"/","*"," ","F","(","1",")",";"," ","*","/">>
\* a string argument holding a call of F: G("F(1);");
StringF == <<"G","(","\"","F","(","1",")",";","\"",")",";">>
\* a call of F with a division in its argument: F(a/b);
CallDivision == <<"F","(","a","/","b",")",";">>
\* a call of F2: F2(1);
CallF2 == <<"F","2","(","1",")",";">>
\* a call of MF: MF(1);
CallMF == <<"M","F","(","1",")",";">>
\* a call of FA: FA(1);
CallFA == <<"F","A","(","1",")",";">>
\* a definition of F: #define F(a)
DefineF == <<"#","d","e","f","i","n","e"," ","F","(","a",")">>

StmtPieces ==
  {CallF, CallMultiLine, CallNameAlone, NoParen, NoSemicolon, CallG, LineCommentF,
   BlockCommentF, StringF, CallDivision, CallF2, CallMF, CallFA, DefineF, <<"\n">>}

\* "F(1 /* c */);"
ExCommentInCall == <<"F","(","1"," ","/","*"," ","c"," ","*","/",")",";">>
\* "F(\n1);\nF(1);"
ExCallAfterMultiLine == Concat(<<CallMultiLine, <<"\n">>, CallF>>)

StmtInputs ==
  {Concat(ps) : ps \in SeqsUpTo(StmtPieces, MaxStmts)}
    \cup {ExCommentInCall, ExCallAfterMultiLine}

CallInit ==
  /\ input \in StmtInputs
  /\ names \in CallNames
  /\ NewScanner
  /\ called = FALSE
  /\ errorCalls = 0
  /\ ret = ErrorToken
  /\ tokens = <<>>
  /\ invs = <<>>
  /\ merr = NoError
  /\ running = TRUE
  /\ w = <<>>
  /\ pass = 1
  /\ hung = FALSE

CallSpec == CallInit /\ [][ScanInvocations]_vars

---------------------------------------------------------------------------
(* ScanInvocations on one call of F whose argument list is any short run    *)
(* of the bytes the argument loop tells apart                               *)

ParseBytes == {"a", " ", ",", "\t", VT, "\n", "\"", "(", ")"}

\* F(<U+00A0>a<U+3000>);  the argument between a no-break space and an
\* ideographic space, as the bytes of their UTF-8 encodings
ExUnicodeSpaces == CallOf(<<"C2", "A0", "a", "E3", "80", "80">>)
\* F(<0xA0>a<0x85>);  the argument between two bytes that encode no rune
ExLoneBytes == CallOf(<<"A0", "a", "85">>)

ParseInputs ==
  {CallOf(b) : b \in SeqsUpTo(ParseBytes, MaxParseLen)}
    \cup {ExUnicodeSpaces, ExLoneBytes}

ParseInit ==
  /\ input \in ParseInputs
  /\ names = <<F>>
  /\ NewScanner
  /\ called = FALSE
  /\ errorCalls = 0
  /\ ret = ErrorToken
  /\ tokens = <<>>
  /\ invs = <<>>
  /\ merr = NoError
  /\ running = TRUE
  /\ w = <<>>
  /\ pass = 1
  /\ hung = FALSE

ParseSpec == ParseInit /\ [][ScanInvocations]_vars

---------------------------------------------------------------------------
(* ScanInvocations with lists of names that hold no name or the empty name  *)

NoName == <<>>

\* names...: no name at all, the empty name alone, F alone, F and the empty name
EmptyNameLists == {<<>>, <<NoName>>, <<F>>, <<F, NoName>>}

\* a parenthesised statement that calls nothing: (a);
ParenStmt == <<"(","a",")",";">>

NamePieces == {CallF, ParenStmt, BlockCommentF, <<"a">>, <<" ">>, <<"\n">>}

NameInputs == {Concat(ps) : ps \in SeqsUpTo(NamePieces, MaxNamePieces)}

NamesInit ==
  /\ input \in NameInputs
  /\ names \in EmptyNameLists
  /\ NewScanner
  /\ called = FALSE
  /\ errorCalls = 0
  /\ ret = ErrorToken
  /\ tokens = <<>>
  /\ invs = <<>>
  /\ merr = NoError
  /\ running = TRUE
  /\ w = <<>>
  /\ pass = 1
  /\ hung = FALSE

NamesSpec == NamesInit /\ [][ScanInvocations]_vars

---------------------------------------------------------------------------
(* StripComments: the consumer of the Scanner that writes the code without  *)
(* its comments.  Its source is not among the files of src.  Its loop is    *)
(* modelled as the spec describes it (a call of Next per token, every Text  *)
(* token's data written verbatim, the return at the Error token with nil    *)
(* for io.EOF).  What it writes for a Comment token is taken from the       *)
(* output TestStripComments asserts (ctext_test.go:112-158): the block      *)
(* comment over three lines leaves its two line breaks and each // comment  *)
(* the line break that ends it, and no other byte of a comment is written.  *)

\* what StripComments writes for the token Next has just returned
StripWrite(z) ==
  IF z.ret = TextToken THEN z.buf
  ELSE SelectSeq(z.buf, LAMBDA c : c = "\n")

StripPieces ==
  {<<"a">>, <<"/","/","\n">>, <<"\"","\"">>, <<"/","*","a","\n","*","/">>,
   <<"\n">>, <<"/">>}

\* the input of TestStripComments, shortened, and the output it expects
ExHello ==
  <<"/","*","\n"," ","h","\n","*","/","\n","/","/"," ","c"," ","\n","#","i",
    " ","\n","m","("," ","\"","H","\"",","," ","s"," ",")",";"," ","/","/",
    " ","c","\n","}","\n">>
ExHelloStripped ==
  <<"\n","\n","\n","\n","#","i"," ","\n","m","("," ","\"","H","\"",","," ",
    "s"," ",")",";"," ","\n","}","\n">>
\* "//\n\"\"//\n"
ExCommentAfterString == <<"/","/","\n","\"","\"","/","/","\n">>

StripInputs ==
  {Concat(ps) : ps \in SeqsUpTo(StripPieces, MaxStripPieces)}
    \cup {ExHello, ExCommentAfterString}

StripInit ==
  /\ input \in StripInputs
  /\ NewScanner
  /\ called = FALSE
  /\ errorCalls = 0
  /\ ret = ErrorToken
  /\ tokens = <<>>
  /\ names = <<>>
  /\ invs = <<>>
  /\ merr = NoError
  /\ running = TRUE
  /\ w = <<>>
  /\ pass = 1
  /\ hung = FALSE

\* one iteration of the loop of StripComments: a call of Next, then the
\* return on ErrorToken (nil for io.EOF) or the write for the token
StripComments ==
  /\ running
  /\ LET z == NextOf(input, Z)
     IN /\ Scan(z)
        /\ IF z.ret = ErrorToken
           THEN /\ merr' = IF z.err = EOF THEN NoError ELSE z.err
                /\ running' = FALSE
                /\ w' = w
           ELSE /\ w' = w \o StripWrite(z)
                /\ UNCHANGED <<merr, running>>
  /\ UNCHANGED <<names, invs, pass, hung>>

\* the strip command is run again, on the output it has just written
\* (strip.go:54: StripComments(w, r) with a new Scanner on r)
StripAgain ==
  /\ ~running /\ merr = NoError /\ pass < MaxPasses
  /\ input' = w
  /\ w' = <<>>
  /\ pass' = pass + 1
  /\ running' = TRUE
  /\ br' = 0
  /\ Position' = [Line |-> 1, Column |-> 1]
  /\ buf' = <<>>
  /\ err' = NoError
  /\ startPosition' = [Line |-> 0, Column |-> 0]
  /\ currentTT' = ErrorToken
  /\ inStringLiteral' = FALSE
  /\ mlCommentCount' = 0
  /\ inSLComment' = FALSE
  /\ called' = FALSE
  /\ errorCalls' = 0
  /\ ret' = ErrorToken
  /\ tokens' = <<>>
  /\ UNCHANGED <<names, invs, merr, hung>>

StripNext == StripComments \/ StripAgain

StripSpec == StripInit /\ [][StripNext]_vars

---------------------------------------------------------------------------
(* What the claims are stated over *)

StripCR(s) == SelectSeq(s, LAMBDA c : c # "\r")

\* where token k begins and ends in the CR-stripped input
TokStart(k) == 1 + Len(ConcatData(SubSeq(tokens, 1, k - 1)))
TokEnd(k) == Len(ConcatData(SubSeq(tokens, 1, k)))

\* the scanner has reported its terminal condition
Finished == called /\ ret = ErrorToken

IsAt(s, i, a, b) == i >= 1 /\ i + 1 <= Len(s) /\ s[i] = a /\ s[i + 1] = b

\* occurrences of /* minus occurrences of */ among the first i bytes of d
Balance(d, i) ==
  Cardinality({k \in 1..(i - 1) : IsAt(d, k, "/", "*")})
    - Cardinality({k \in 1..(i - 1) : IsAt(d, k, "*", "/")})

(* The lexical structure of C the scanner is meant to follow: the comments *)
(* and string literals of a byte string, as segments [kind, from, to, ok]  *)
(* (ok: the segment is terminated).  Block comments nest, as the scanner's *)
(* tests expect.                                                           *)

\* the closing quote of the literal whose bytes start at i; 0 if there is none
RECURSIVE StrClose(_, _)
StrClose(s, i) ==
  IF i > Len(s) \/ s[i] = "\n" THEN 0
  ELSE IF s[i] = "\\" THEN StrClose(s, i + 2)
  ELSE IF s[i] = "\"" THEN i
  ELSE StrClose(s, i + 1)

\* the newline ending the line comment whose bytes go on at i; 0 if there is none
RECURSIVE LineEnd(_, _)
LineEnd(s, i) ==
  IF i > Len(s) THEN 0 ELSE IF s[i] = "\n" THEN i ELSE LineEnd(s, i + 1)

\* the last byte of the block comment that is open d deep at i; 0 if there is none
RECURSIVE BlockClose(_, _, _)
BlockClose(s, i, d) ==
  IF i > Len(s) THEN 0
  ELSE IF IsAt(s, i, "/", "*") THEN BlockClose(s, i + 2, d + 1)
  ELSE IF IsAt(s, i, "*", "/")
       THEN IF d = 1 THEN i + 1 ELSE BlockClose(s, i + 2, d - 1)
  ELSE BlockClose(s, i + 1, d)

Seg(kind, from, to, len) ==
  [kind |-> kind, from |-> from, to |-> IF to = 0 THEN len ELSE to, ok |-> to # 0]

RECURSIVE Segments(_, _)
Segments(s, i) ==
  IF i > Len(s) THEN <<>>
  ELSE LET g == IF s[i] = "\"" THEN Seg("str", i, StrClose(s, i + 1), Len(s))
                ELSE IF IsAt(s, i, "/", "/") THEN Seg("line", i, LineEnd(s, i + 2), Len(s))
                ELSE IF IsAt(s, i, "/", "*") THEN Seg("block", i, BlockClose(s, i + 2, 1), Len(s))
                ELSE Seg("code", i, i, Len(s))
       IN IF g.kind = "code" THEN Segments(s, i + 1)
          ELSE <<g>> \o Segments(s, g.to + 1)

\* the segments of the CR-stripped input
Lexed == Segments(StripCR(input), 1)
SegsOf(kind) == {Lexed[k] : k \in {j \in DOMAIN Lexed : Lexed[j].kind = kind /\ Lexed[j].ok}}

\* the 1-based line and column of byte i of the input
LineOf(s, i) == 1 + Cardinality({k \in 1..(i - 1) : s[k] = "\n"})
ColumnOf(s, i) ==
  LET nls == {k \in 1..(i - 1) : s[k] = "\n"}
  IN i - (IF nls = {} THEN 0 ELSE CHOOSE k \in nls : \A j \in nls : j <= k)

---------------------------------------------------------------------------
(* C1 *)

\* C1 as stated: once Next has returned ErrorToken, the data of the tokens
\* returned, concatenated in order, is the input without its \r bytes.
C1_RoundTrip == Finished => ConcatData(tokens) = StripCR(input)

\* C1 as amended: the tokens returned so far always concatenate to the bytes
\* read so far without their \r; at the end they make up the whole CR-stripped
\* input when scanning ends with io.EOF, and when it ends with the
\* unterminated-comment error they make up the part before the unterminated
\* span, whose bytes are left in the buffer and returned in no token.
C1_RoundTripToEOF ==
  /\ (called /\ ret # ErrorToken) =>
        ConcatData(tokens) = StripCR(SubSeq(input, 1, br))
  /\ (Finished /\ err = EOF) => ConcatData(tokens) = StripCR(input)
  /\ (Finished /\ err # EOF) => ConcatData(tokens) \o buf = StripCR(input)

\* several tokens were returned from an input holding a \r, up to io.EOF
C1_Witness ==
  /\ Finished /\ err = EOF /\ Len(tokens) >= 2
  /\ \E i \in DOMAIN input : input[i] = "\r"

(* C2 *)

\* the literal g has a // or a /* between its quotes
HoldsCommentStart(g) ==
  \E i \in (g.from + 1)..(g.to - 2) :
    IsAt(StripCR(input), i, "/", "/") \/ IsAt(StripCR(input), i, "/", "*")

\* C2: once scanning has finished, every well-formed string literal of the
\* code that holds a // or a /* lies inside one Text token (so the block
\* comment depth was not raised in it), and no Comment token starts in it.
C2_StringLiteralImmunity ==
  Finished =>
    \A g \in SegsOf("str") :
      HoldsCommentStart(g) =>
        /\ \E k \in DOMAIN tokens :
              /\ tokens[k].Type = TextToken
              /\ TokStart(k) <= g.from /\ g.to <= TokEnd(k)
        /\ \A k \in DOMAIN tokens :
              tokens[k].Type = CommentToken =>
                ~(g.from <= TokStart(k) /\ TokStart(k) <= g.to)

(* C3 *)

\* C3: a Comment token that opens with /* ends exactly where its /* and */
\* first balance, so an inner /* needs an inner */ before the outer one is
\* closed; the tail of the repository's complex example gives Text, one
\* Comment holding the nested comment, and Text right after the second */.
C3_NestedBlockOneToken ==
  /\ \A k \in DOMAIN tokens :
        (tokens[k].Type = CommentToken /\ IsAt(tokens[k].Data, 1, "/", "*")) =>
           /\ Balance(tokens[k].Data, Len(tokens[k].Data)) = 0
           /\ \A i \in 2..(Len(tokens[k].Data) - 1) : Balance(tokens[k].Data, i) > 0
  /\ (Finished /\ input = ExComplexTail) =>
        /\ Len(tokens) = 3
        /\ tokens[1].Type = TextToken /\ tokens[1].Data = SubSeq(input, 1, 6)
        /\ tokens[2].Type = CommentToken /\ tokens[2].Data = SubSeq(input, 7, 21)
        /\ tokens[3].Type = TextToken /\ tokens[3].Data = SubSeq(input, 22, 29)

\* a Comment token holding an inner /* was returned, and a Text token after it
C3_Witness ==
  \E k \in DOMAIN tokens :
    /\ tokens[k].Type = CommentToken
    /\ \E i \in 1..Len(tokens[k].Data) : Balance(tokens[k].Data, i) = 2
    /\ k < Len(tokens) /\ tokens[k + 1].Type = TextToken

(* C4 *)

\* C4 as stated: the depth is 0 or 1 and the first */ closes the Comment
\* token: "/* a /* b */ c */" gives Comment "/* a /* b */", Text " c */".
C4_NoNesting ==
  /\ mlCommentCount \in {0, 1}
  /\ (Finished /\ input = ExNested) =>
        /\ Len(tokens) = 2
        /\ tokens[1].Type = CommentToken /\ tokens[1].Data = SubSeq(input, 1, 12)
        /\ tokens[2].Type = TextToken /\ tokens[2].Data = SubSeq(input, 13, 17)

\* C4 as amended: block comments nest.  The depth is a count that is never
\* negative, is 0 whenever a token is returned and, at the unterminated-comment
\* error, is the number of /* of the buffer still unclosed (so it exceeds 1
\* for an inner /*); "/* a /* b */ c */" is returned as one Comment token.
C4_Nesting ==
  /\ mlCommentCount >= 0
  /\ (called /\ ret # ErrorToken) => mlCommentCount = 0
  /\ (Finished /\ err = ErrUnexpectedEnd /\ IsAt(buf, 1, "/", "*")) =>
        mlCommentCount = Balance(buf, Len(buf))
  /\ (Finished /\ input = ExNested) =>
        /\ err = EOF
        /\ Len(tokens) = 1
        /\ tokens[1].Type = CommentToken /\ tokens[1].Data = input

\* "/* a /* b */ c */" has been scanned to its end
C4_Witness == Finished /\ input = ExNested /\ Len(tokens) = 1

(* C5 *)

\* C5: once scanning has finished, every // of the code outside a string
\* literal that has a terminating \n is a Comment token of its own, from the
\* first / to the \n (so the text before it ended in the token before, and
\* the next token starts on the following line); "int x; // c\ny;" gives
\* Text "int x; ", Comment "// c\n", Text "y;".
C5_LineCommentBoundary ==
  /\ Finished =>
       \A g \in SegsOf("line") :
         \E k \in DOMAIN tokens :
           /\ tokens[k].Type = CommentToken
           /\ TokStart(k) = g.from /\ TokEnd(k) = g.to
  /\ (Finished /\ input = ExLineComment) =>
        /\ Len(tokens) = 3
        /\ tokens[1].Type = TextToken /\ tokens[1].Data = SubSeq(input, 1, 7)
        /\ tokens[2].Type = CommentToken /\ tokens[2].Data = SubSeq(input, 8, 12)
        /\ tokens[3].Type = TextToken /\ tokens[3].Data = SubSeq(input, 13, 14)

(* C6 *)

\* C6: when the end of input is reached with the block-comment depth above 0,
\* Next returns ErrorToken and the error is the unterminated-comment error,
\* not io.EOF; the unterminated span stays in the buffer and is part of no
\* token; and that error is reported in no other case.
C6_UnterminatedBlock ==
  /\ (called /\ mlCommentCount > 0) =>
        /\ ret = ErrorToken /\ currentTT = ErrorToken
        /\ err = ErrUnexpectedEnd
        /\ br = Len(input)
        /\ Len(buf) >= 2
        /\ ConcatData(tokens) \o buf = StripCR(input)
  /\ err = ErrUnexpectedEnd => (Finished /\ mlCommentCount > 0)

\* the input ended inside a block comment that follows a returned token
C6_Witness ==
  Finished /\ mlCommentCount > 0 /\ Len(tokens) > 0 /\ IsAt(buf, 1, "/", "*")

(* C7 *)

\* C7: the call of Next in which the input runs out returns TextToken with
\* the buffered bytes as its data when there are any and no block comment is
\* open, and ErrorToken with io.EOF when the buffer is empty; after such a
\* final Text token the next call returns ErrorToken with io.EOF, reading
\* nothing.
C7_FlushThenEOF ==
  [][ /\ (err = NoError /\ err' # NoError /\ buf' # <<>> /\ mlCommentCount' = 0) =>
           /\ ret' = TextToken /\ currentTT' = TextToken
           /\ err' = EOF
           /\ tokens' = Append(tokens, [Type |-> TextToken,
                                        Line |-> startPosition'.Line,
                                        Column |-> startPosition'.Column,
                                        Data |-> buf',
                                        off |-> tokens'[Len(tokens')].off])
           /\ ConcatData(tokens') = StripCR(input)
      /\ (err = NoError /\ err' # NoError /\ buf' = <<>>) =>
           ret' = ErrorToken /\ err' = EOF /\ tokens' = tokens
      /\ (called /\ ret = TextToken /\ err = EOF) =>
           ret' = ErrorToken /\ err' = EOF /\ br' = br /\ tokens' = tokens
    ]_vars

\* the call after a final Text token has returned ErrorToken
C7_Witness ==
  /\ Finished /\ err = EOF /\ currentTT = TextToken /\ buf # <<>>
  /\ Len(tokens) >= 1 /\ tokens[Len(tokens)].Data = buf

(* C8 *)

\* C8: once Next has returned ErrorToken, every later call returns
\* ErrorToken, the error stays the same and is not nil, nothing more is read
\* and no scanner field changes.
C8_TerminalSticky ==
  [][ Finished =>
        /\ err # NoError
        /\ ret' = ErrorToken
        /\ UNCHANGED <<br, Position, buf, err, startPosition, currentTT,
                       inStringLiteral, mlCommentCount, inSLComment, tokens>>
    ]_vars

\* Next was called again after it had returned ErrorToken
C8_Witness == errorCalls >= 2 /\ ret = ErrorToken /\ br = Len(input) /\ br > 0

(* C9 *)

\* C9: the position of every returned token is the 1-based line and column,
\* in the input, of the first byte of the token's data.
C9_TokenPosition ==
  \A k \in DOMAIN tokens :
    /\ tokens[k].Line = LineOf(input, tokens[k].off)
    /\ tokens[k].Column = ColumnOf(input, tokens[k].off)
    /\ tokens[k].Line >= 1 /\ tokens[k].Column >= 1

(* C10 *)

AllSpaces(s, a, b) == \A k \in a..b : s[k] = " "

\* byte p of s is preceded, after optional spaces, by define, itself
\* preceded, after optional spaces, by #
DefinedAt(s, p) ==
  \E h \in 1..(p - 1) : \E e \in (h + 6)..(p - 1) :
    /\ s[h] = "#"
    /\ AllSpaces(s, h + 1, e - 6)
    /\ SubSeq(s, e - 5, e) = Define
    /\ AllSpaces(s, e + 1, p - 1)

\* C10: no Invocation is produced for an occurrence of a target name that
\* is preceded by # define; "#define F(a,b) (a+b)" with target F gives no
\* invocation, and a call of F on the next line is still reported.
C10_DefinitionExclusion ==
  /\ \A k \in DOMAIN invs : ~DefinedAt(StripCR(input), invs[k].at)
  /\ (~running /\ input = ExDefine /\ names = <<F>>) =>
        invs = <<>> /\ merr = NoError
  /\ (~running /\ input = ExDefineThenCall /\ names = <<F>>) =>
        /\ merr = NoError
        /\ Len(invs) = 1
        /\ invs[1].Name = F /\ invs[1].Start = 2 /\ invs[1].End = 2
        /\ invs[1].Args = << <<"1">>, <<"2">> >>

(* C11 *)

\* ScanInvocations has returned
Returned == ~running

\* the argument text of an input CallOf(body)
BodyOf(in) == SubSeq(in, 3, Len(in) - 2)

\* a is well nested from byte i on, read at depth d, q: inside a string literal
RECURSIVE WellNested(_, _, _, _)
WellNested(a, i, d, q) ==
  IF i > Len(a) THEN d = 0 /\ ~q
  ELSE IF q THEN WellNested(a, i + 1, d, a[i] # "\"")
  ELSE IF a[i] = "\"" THEN WellNested(a, i + 1, d, TRUE)
  ELSE IF a[i] = "(" THEN WellNested(a, i + 1, d + 1, FALSE)
  ELSE IF a[i] = ")" THEN d > 0 /\ WellNested(a, i + 1, d - 1, FALSE)
  ELSE WellNested(a, i + 1, d, FALSE)

\* the arguments of the list a as the claim describes them: a is cut at the
\* spaces and commas that lie at depth 0 outside a string literal and at no
\* other byte, and the pieces that are not empty are the arguments, each
\* with every byte it has in a.  cur: the piece read so far
RECURSIVE RefArgs(_, _, _, _, _)
RefArgs(a, i, d, q, cur) ==
  IF i > Len(a) THEN IF cur = <<>> THEN <<>> ELSE <<cur>>
  ELSE IF q THEN RefArgs(a, i + 1, d, a[i] # "\"", Append(cur, a[i]))
  ELSE IF a[i] = "\"" THEN RefArgs(a, i + 1, d, TRUE, Append(cur, a[i]))
  ELSE IF a[i] = "(" THEN RefArgs(a, i + 1, d + 1, FALSE, Append(cur, a[i]))
  ELSE IF a[i] = ")" THEN RefArgs(a, i + 1, d - 1, FALSE, Append(cur, a[i]))
  ELSE IF d = 0 /\ a[i] \in {" ", ","}
       THEN (IF cur = <<>> THEN <<>> ELSE <<cur>>)
              \o RefArgs(a, i + 1, d, FALSE, <<>>)
  ELSE RefArgs(a, i + 1, d, FALSE, Append(cur, a[i]))

\* C11: a call of F whose argument list is well nested gives one Invocation
\* whose arguments are the pieces of the list between the spaces and commas
\* at depth 0 outside a string literal: no comma, space or parenthesis at
\* depth > 0 or inside a string literal ends an argument, and every argument
\* holds its inner text byte for byte; "F( G(1,2), 3 );" gives exactly the
\* args G(1,2) and 3, and the call with the nested call I( 123, "T" ) gives
\* that call as one argument.
C11_NestedArgs ==
  /\ (Returned /\ WellNested(BodyOf(input), 1, 0, FALSE)) =>
        /\ Len(invs) = 1
        /\ invs[1].Args = RefArgs(BodyOf(input), 1, 0, FALSE, <<>>)
  /\ (Returned /\ input = ExNestedCall) =>
        invs[1].Args = << <<"G","(","1",",","2",")">>, <<"3">> >>
  /\ (Returned /\ input = ExInnerCall) =>
        invs[1].Args = << <<"\"","%","d","\"">>, <<"1">>,
                          <<"I","("," ","1","2","3",","," ","\"","T","\""," ",")">> >>

---------------------------------------------------------------------------
(* What the claims on ScanInvocations are stated over: the CR-stripped     *)
(* input, its comments and string literals, and the calls it holds.        *)

In == StripCR(input)

\* byte p lies in a segment of that kind, terminated or not
Covers(kind, p) ==
  \E k \in DOMAIN Lexed :
    Lexed[k].kind = kind /\ Lexed[k].from <= p /\ p <= Lexed[k].to

InComment(p) == Covers("line", p) \/ Covers("block", p)

\* byte p lies in a string literal that has its closing quote
InString(p) == \E g \in SegsOf("str") : g.from <= p /\ p <= g.to

IsWord(s, i) == i >= 1 /\ i <= Len(s) /\ s[i] \in WordChars

\* n stands at byte p of s
TextAt(s, p, n) == p >= 1 /\ p + Len(n) - 1 <= Len(s) /\ SubSeq(s, p, p + Len(n) - 1) = n

\* n stands at byte p of s as a whole identifier
IdentAt(s, p, n) ==
  TextAt(s, p, n) /\ ~IsWord(s, p - 1) /\ ~IsWord(s, p + Len(n))

Targets == {names[k] : k \in DOMAIN names}

\* byte p is on a line that holds a # before it
OnDefineLine(p) ==
  \E h \in 1..(p - 1) : In[h] = "#" /\ \A j \in h..(p - 1) : In[j] # "\n"

\* the occurrences of a target name in the code: whole identifiers outside
\* comments, string literals and definitions, as [p, n]
Occurrences ==
  {o \in (1..Len(In)) \X Targets :
     /\ IdentAt(In, o[1], o[2])
     /\ ~InComment(o[1]) /\ ~InString(o[1])
     /\ ~DefinedAt(In, o[1]) /\ ~OnDefineLine(o[1])}

\* the first byte from i on that is no space and no line break; 0 if none
RECURSIVE NextNonSpace(_, _)
NextNonSpace(s, i) ==
  IF i > Len(s) THEN 0
  ELSE IF s[i] \in {" ", "\n"} THEN NextNonSpace(s, i + 1) ELSE i

\* the ) closing the parenthesis that is open d deep at i, string literals
\* and comments skipped; 0 if there is none
RECURSIVE ParenClose(_, _, _)
ParenClose(s, i, d) ==
  IF i > Len(s) THEN 0
  ELSE IF s[i] = "\""
       THEN LET q == StrClose(s, i + 1)
            IN IF q = 0 THEN 0 ELSE ParenClose(s, q + 1, d)
  ELSE IF IsAt(s, i, "/", "*")
       THEN LET c == BlockClose(s, i + 2, 1)
            IN IF c = 0 THEN 0 ELSE ParenClose(s, c + 1, d)
  ELSE IF IsAt(s, i, "/", "/")
       THEN LET e == LineEnd(s, i + 2)
            IN IF e = 0 THEN 0 ELSE ParenClose(s, e + 1, d)
  ELSE IF s[i] = "(" THEN ParenClose(s, i + 1, d + 1)
  ELSE IF s[i] = ")" THEN IF d = 1 THEN i ELSE ParenClose(s, i + 1, d - 1)
  ELSE ParenClose(s, i + 1, d)

\* the bytes from i on start with an opening (
FollowedByParen(i) ==
  LET o == NextNonSpace(In, i) IN o # 0 /\ In[o] = "("

\* the bytes from i on are "( ... );"
IsCall(i) ==
  /\ FollowedByParen(i)
  /\ LET c == ParenClose(In, NextNonSpace(In, i) + 1, 1)
     IN /\ c # 0
        /\ LET e == NextNonSpace(In, c + 1) IN e # 0 /\ In[e] = ";"

\* where the calls NAME( ... ); of a target name begin
TargetCalls == {o[1] : o \in {c \in Occurrences : IsCall(c[1] + Len(c[2]))}}

(* C12 *)

\* C12: the Start of every Invocation handed to the callback is the 1-based
\* line of the input on which the matched name stands, also for an
\* invocation that follows a multi-line invocation or a skipped #define in
\* the same Text token.
C12_StartLine ==
  \A k \in DOMAIN invs : invs[k].Start = LineOf(In, invs[k].at)

(* C13 *)

\* C13: the End of every Invocation handed to the callback is the line of
\* the input holding the ; that ended it, wherever the line breaks between
\* the name and that ; fall, and Start <= End.
C13_EndLine ==
  \A k \in DOMAIN invs :
    /\ invs[k].End = LineOf(In, invs[k].semi)
    /\ invs[k].Start <= invs[k].End

(* C14 *)

\* C14: when ScanInvocations has returned without an error, the callback
\* was made exactly once for every call NAME( ... ); of a target name that
\* the input holds outside comments, string literals and #define lines,
\* whatever the argument text is.
C14_ExactlyOnce ==
  (Returned /\ merr = NoError) =>
    \A p \in TargetCalls :
      Cardinality({k \in DOMAIN invs : invs[k].at = p}) = 1

(* C15 *)

\* every occurrence of the text of a target name lies in a comment
OnlyInComments ==
  \A p \in 1..Len(In) : (\E n \in Targets : TextAt(In, p, n)) => InComment(p)

\* C15: no Invocation is produced for a name that lies in a comment (a
\* block comment, or a line comment ended by a newline or by the end of the
\* input), and an input holding the target names in comments only gives no
\* Invocation and no extractor error.
C15_CommentsNeverMatched ==
  /\ \A k \in DOMAIN invs : ~InComment(invs[k].at)
  /\ (Returned /\ OnlyInComments) => (invs = <<>> /\ merr # ErrMissingParen)

(* C16 *)

\* no target name stands in the input as a whole identifier
NoIdentifier ==
  \A p \in 1..Len(In) : \A n \in Targets : ~IdentAt(In, p, n)

\* C16: every Invocation carries a name that stands in the input as a whole
\* identifier where it was matched; an input holding no target name as a
\* whole identifier (F2, MF for target F) gives no Invocation and no
\* extractor error; and with targets F and FA a call of FA is reported
\* under FA, in whatever order the targets are given.
C16_WordBoundary ==
  /\ \A k \in DOMAIN invs : IdentAt(In, invs[k].at, invs[k].Name)
  /\ (Returned /\ NoIdentifier) => (invs = <<>> /\ merr # ErrMissingParen)
  /\ (Returned /\ input = CallFA /\ Len(names) = 2) =>
        (Len(invs) = 1 /\ invs[1].Name = FA)

(* C17 *)

\* C17: no Invocation is produced for an occurrence of a target name, as a
\* whole identifier, whose next byte after spaces and line breaks is not (,
\* and when the code holds
\* such an occurrence ScanInvocations returns the missing-parentheses error.
C17_MissingParen ==
  /\ \A k \in DOMAIN invs :
        IdentAt(In, invs[k].at, invs[k].Name) =>
          FollowedByParen(invs[k].at + Len(invs[k].Name))
  /\ (Returned /\ \E o \in Occurrences : ~FollowedByParen(o[1] + Len(o[2]))) =>
        merr = ErrMissingParen

(* C18 *)

\* a call of a target name has its ( and no ; outside a string literal
\* follows it
OpenCall ==
  \E o \in Occurrences :
    /\ FollowedByParen(o[1] + Len(o[2]))
    /\ \A j \in (o[1] + 1)..Len(In) : In[j] = ";" => InString(j)

\* C18: when a call of a target name has its ( and the input ends before a
\* ; outside a string literal, ScanInvocations returns an error.
C18_MissingSemicolon ==
  (Returned /\ OpenCall) => merr # NoError

(* C19 *)

\* C19: no Invocation is produced for a target name that lies inside a
\* string literal of the code.
C19_StringSpansIgnored ==
  \A k \in DOMAIN invs : ~InString(invs[k].at)

(* C20 *)

\* what a consumer writes that writes the data of every Text token in
\* order and nothing for a Comment token
RECURSIVE TextData(_)
TextData(ts) ==
  IF ts = <<>> THEN <<>>
  ELSE (IF Head(ts).Type = TextToken THEN Head(ts).Data ELSE <<>>)
         \o TextData(Tail(ts))

\* the CR-stripped input from byte p on without its comments: every block
\* comment, and every line comment up to and with its newline or up to the
\* end of the input
RECURSIVE KeepCode(_)
KeepCode(p) ==
  IF p > Len(In) THEN <<>>
  ELSE (IF InComment(p) THEN <<>> ELSE <<In[p]>>) \o KeepCode(p + 1)

\* C20: when the input has been scanned to io.EOF, the data of the Text
\* tokens, written in order, is the input with every comment deleted and no
\* other byte altered.
C20_CommentStripping ==
  (Finished /\ err = EOF) => TextData(tokens) = KeepCode(1)

(* C21 *)

\* C21: when the strip command has succeeded on an input and is run again
\* on its output, it succeeds, writes that output unchanged and meets no
\* Comment token in it.
C21_StripIdempotent ==
  /\ (pass >= 2 /\ Returned) => (merr = NoError /\ w = input)
  /\ pass >= 2 => \A k \in DOMAIN tokens : tokens[k].Type # CommentToken

(* C22 *)

\* how many line breaks s holds
CountNL(s) == Cardinality({i \in DOMAIN s : s[i] = "\n"})

\* every byte of s is white space or a comma
OnlySeparators(s) == \A i \in DOMAIN s : s[i] \in Space \cup {","}

\* C23: every argument of every Invocation is non-empty and neither starts
\* nor ends with white space, ASCII or not; an argument list holding white
\* space and commas only gives an Invocation without arguments; the argument
\* between a no-break space and an ideographic space is reported without
\* them.
C23_ArgsTrimmed ==
  /\ \A k \in DOMAIN invs : \A j \in DOMAIN invs[k].Args :
        LET a == invs[k].Args[j]
        IN /\ a # <<>> /\ a[1] \notin Space /\ a[Len(a)] \notin Space
           /\ LeadingSpace(a) = 0 /\ TrailingSpace(a) = 0
  /\ (Returned /\ OnlySeparators(BodyOf(input))) =>
        (merr = NoError /\ Len(invs) = 1 /\ invs[1].Args = <<>>)
  /\ (Returned /\ input = ExUnicodeSpaces) =>
        (merr = NoError /\ Len(invs) = 1 /\ invs[1].Args = << <<"a">> >>)

\* a call was reported whose argument starts after a tab and ends before a
\* vertical tab and a comma: F(\ta\v,);
C23_Witness ==
  /\ Returned /\ input = CallOf(<<"\t", "a", VT, ",">>)
  /\ Len(invs) = 1 /\ invs[1].Args = << <<"a">> >>

(* C24 *)

\* C24: Next never returns two Text tokens in succession: a Text token ends
\* only where a Comment token begins or at the end of the input.
C24_TextMaximal ==
  \A k \in 1..(Len(tokens) - 1) :
    ~(tokens[k].Type = TextToken /\ tokens[k + 1].Type = TextToken)

(* C25 *)

StartsWith(d, a, b) == IsAt(d, 1, a, b)
EndsWith(d, a, b) == IsAt(d, Len(d) - 1, a, b)

\* C25: the data of every Comment token begins with // and ends with \n,
\* or begins with /* and ends with */ (so it holds no byte that precedes
\* its opening delimiter).
C25_CommentShape ==
  \A k \in DOMAIN tokens :
    tokens[k].Type = CommentToken =>
      LET d == tokens[k].Data
      IN \/ StartsWith(d, "/", "/") /\ d[Len(d)] = "\n"
         \/ StartsWith(d, "/", "*") /\ EndsWith(d, "*", "/")

(* C26 *)

\* d holds no line break before its last byte
NoInnerNewline(d) == \A i \in 1..(Len(d) - 1) : d[i] # "\n"

\* C26: data that begins with // goes no further than the first \n after
\* it: a token that begins with // holds no \n before its last byte, and
\* neither does a buffer that begins with // when the scan has ended.
C26_NewlineClosesLineComment ==
  /\ \A k \in DOMAIN tokens :
        StartsWith(tokens[k].Data, "/", "/") => NoInnerNewline(tokens[k].Data)
  /\ (Finished /\ StartsWith(buf, "/", "/")) => NoInnerNewline(buf)

(* C27 *)

\* the scanner NewScanner returns, as a record
Z0 ==
  [br |-> 0, Position |-> [Line |-> 1, Column |-> 1], buf |-> <<>>,
   err |-> NoError, startPosition |-> [Line |-> 0, Column |-> 0],
   currentTT |-> ErrorToken, inStringLiteral |-> FALSE, mlCommentCount |-> 0,
   inSLComment |-> FALSE, ret |-> ErrorToken, first |-> 0]

\* the tokens Next returns on the input in, from the scanner z on, up to the
\* first ErrorToken
RECURSIVE TokensFrom(_, _)
TokensFrom(in, z) ==
  LET z1 == NextOf(in, z)
  IN IF z1.ret = ErrorToken THEN <<>> ELSE <<Token(z1)>> \o TokensFrom(in, z1)

\* C27: no token holds a \r, and when the input has been scanned to its
\* end the tokens have the lines and columns that the tokens of the input
\* without its \r bytes have.
C27_CarriageReturns ==
  /\ \A k \in DOMAIN tokens : \A i \in DOMAIN tokens[k].Data :
        tokens[k].Data[i] # "\r"
  /\ Finished =>
        LET ts == TokensFrom(StripCR(input), Z0)
        IN /\ Len(ts) = Len(tokens)
           /\ \A k \in DOMAIN tokens :
                 /\ tokens[k].Line = ts[k].Line
                 /\ tokens[k].Column = ts[k].Column

(* C28 *)

\* whether a string literal is open after the bytes of b, read outside any
\* comment from outside a string literal: every " flips it unless the byte
\* before it is a backslash
RECURSIVE OpenAfter(_, _)
OpenAfter(b, n) ==
  IF n = 0 THEN FALSE
  ELSE IF b[n] = "\"" /\ ~(n > 1 /\ b[n - 1] = "\\")
       THEN ~OpenAfter(b, n - 1)
       ELSE OpenAfter(b, n - 1)

\* C28: when Next has returned a Text token whose bytes it read outside any
\* comment, inStringLiteral is what flipping at every " not preceded by a
\* backslash gives, the " that is the first byte of the token included.
C28_StringToggle ==
  (called /\ ret = TextToken /\ ~inSLComment /\ mlCommentCount = 0) =>
    inStringLiteral = OpenAfter(buf, Len(buf))

(* C29 *)

\* the last byte of the argument list is the byte a, read at depth 0 outside
\* a string literal, so that the ) closing the call is read at depth 0 with
\* that byte pending
EndsInPendingByte(body) ==
  /\ body # <<>>
  /\ body[Len(body)] = "a"
  /\ WellNested(body, 1, 0, FALSE)

LastArg == invs[1].Args[Len(invs[1].Args)]

\* C29 as stated: the ) read at depth 0 is appended to the pending argument
\* before the flush, so the argument closed by the ) of the call ends with
\* that ).
C29_CloseParenBuffered ==
  (Returned /\ EndsInPendingByte(BodyOf(input))) =>
    /\ merr = NoError /\ Len(invs) = 1 /\ invs[1].Args # <<>>
    /\ LastArg[Len(LastArg)] = ")"

\* C29: a ) read outside a string literal at depth 0 leaves the depth at 0,
\* is not appended to the pending argument, and flushes the pending bytes as
\* a completed argument: every reported argument is well nested (it holds no
\* ) that closes no ( of its own), and an argument list that ends in a
\* pending byte gives a last argument that ends with that byte; "F(a);"
\* gives the one argument a.
C29_CloseParenFlushes ==
  /\ Returned => \A n \in DOMAIN invs : \A k \in DOMAIN invs[n].Args :
        WellNested(invs[n].Args[k], 1, 0, FALSE)
  /\ (Returned /\ EndsInPendingByte(BodyOf(input))) =>
        /\ merr = NoError /\ Len(invs) = 1 /\ invs[1].Args # <<>>
        /\ LastArg[Len(LastArg)] = "a"
  /\ (Returned /\ input = CallOf(<<"a">>)) => invs[1].Args = << <<"a">> >>

\* a call was reported whose first ) was read at depth 1 and kept in the
\* argument, and whose ) read at depth 0 flushed the pending a without
\* entering it
C29_Witness ==
  /\ Returned /\ input = CallOf(<<"(", "a", ")", "a">>)
  /\ Len(invs) = 1
  /\ invs[1].Args = << <<"(", "a", ")">>, <<"a">> >>

(* C30 *)

NoDoubledByte(s) == \A i \in 1..(Len(s) - 1) : ~(s[i] = "a" /\ s[i + 1] = "a")

\* C30: a newline read inside the argument list adds one to the line counter
\* (End is Start plus the newlines of the list) and stays in the pending
\* argument: two bytes a separated by a line break are never reported side
\* by side in one argument, and the string literal holding a newline is
\* reported with it.
C30_NewlineBuffered ==
  /\ (Returned /\ Len(invs) = 1) =>
        invs[1].End = invs[1].Start + CountNL(BodyOf(input))
  /\ (Returned /\ NoDoubledByte(BodyOf(input))) =>
        \A n \in DOMAIN invs : \A k \in DOMAIN invs[n].Args :
          NoDoubledByte(invs[n].Args[k])
  /\ (Returned /\ input = CallOf(<<"\"", "\n", "\"">>)) =>
        /\ Len(invs) = 1
        /\ invs[1].Args = << <<"\"", "\n", "\"">> >>

(* C31 *)

\* C31: Err() never panics: in every state of the Scanner, the one NewScanner
\* returns included, currentTT = ErrorToken implies err # nil.
C31_ErrNeverPanics == currentTT = ErrorToken => err # NoError

(* C32 *)

\* C32: whenever the most recent call of Next returned CommentToken or
\* TextToken, Err() returns nil: an error, io.EOF included, is held only once
\* Next has returned ErrorToken.
C32_ErrOnlyAfterErrorToken ==
  (called /\ ret \in {CommentToken, TextToken}) => err = NoError

(* C33 *)

\* C33: every call of Next that returns CommentToken or TextToken returns
\* non-empty data and consumes at least one byte: each token starts at a later
\* input byte than the token before it, and the tokens returned are never
\* more than the bytes consumed, so that on n bytes the ErrorToken comes after
\* at most n + 1 calls.
C33_Progress ==
  /\ \A k \in DOMAIN tokens : tokens[k].Data # <<>>
  /\ \A k \in 1..(Len(tokens) - 1) : tokens[k].off < tokens[k + 1].off
  /\ Len(tokens) <= br
  /\ br <= Len(input)

\* the ErrorToken came at call n + 1 exactly, on an input of n >= 2 bytes
C33_Witness ==
  /\ Finished /\ errorCalls = 1
  /\ Len(input) >= 2
  /\ Len(tokens) = Len(input)

(* C34 *)

\* C34: ScanInvocations returns after finitely many steps and callbacks for
\* every list of names, the empty list and the empty name included: it is
\* never caught in a loop that makes callbacks for ever (each step of its
\* outer loop takes one token of the finite input, so nothing else keeps it
\* from returning); with no names it makes no callback.
C34_Terminates ==
  /\ ~hung
  /\ names = <<>> => invs = <<>>

(* C35 *)

\* C35: a block comment is closed only by a */ whose * comes after the two
\* bytes of its opening /*: a Comment token that begins with /* holds at
\* least the four bytes of the two delimiters, and on the three bytes /*/ the
\* scanner returns no token and ends on the unterminated comment.
C35_CloserAfterOpener ==
  /\ \A k \in DOMAIN tokens :
        (tokens[k].Type = CommentToken /\ StartsWith(tokens[k].Data, "/", "*"))
          => Len(tokens[k].Data) >= 4
  /\ (Finished /\ input = <<"/", "*", "/">>) =>
        (tokens = <<>> /\ err = ErrUnexpectedEnd)

====
